---- MODULE Spec2Model ----
(***************************************************************************)
(* A model of the command-line wallet: the encrypted account vault          *)
(* (services/account.rs, services/crypto.rs), the session file, and the     *)
(* transaction pipeline with its per-(account, network) history file        *)
(* (services/transaction.rs).                                               *)
(*                                                                          *)
(* Storage is the directory "storage": one JSON file per file stem          *)
(* (<account>.json, state.json and networks.json share that name space)     *)
(* and one tx_history.json per (account, network) directory.                *)
(* network_service is the NetworkService each invocation builds             *)
(* (services/network.rs).                                                   *)
(***************************************************************************)
EXTENDS Integers, Sequences, FiniteSets, TLC

VARIABLES files, history, pc, req, wallet, tx, calls, locals, last, network_service

vars == <<files, history, pc, req, wallet, tx, calls, locals, last, network_service>>

(***************************************************************************)
(* Value domains                                                            *)
(***************************************************************************)
\* Account names a user can type; "state" is also the stem of STATE_FILE.
Names == {"alice", "bob", "state"}

STATE_STEM == "state"

\* The stem of STORAGE_FILE, the persisted network registry.
NETWORKS_STEM == "networks"

\* The files of the storage directory the commands read or write.
Stems == Names \cup {NETWORKS_STEM}

\* Passwords as returned by get_password (already trimmed).
Passwords == {"pw", "hunter2"}

\* Outcomes of the random generators (OsRng, Mnemonic::generate_in).
Keys == {"k1", "k2"}

AeadNonces == {"n1", "n2"}

Phrases == {"ph1", "ph2"}

Null == "null"

\* ---------------------------------------------------------------- files
NoFile == [kind |-> "missing"]

\* A file whose contents are not JSON.
Garbage == [kind |-> "garbage"]

SessionJson(a) == [kind |-> "session", logged_in_account |-> a]

\* AES-256-GCM: the ciphertext (with its tag) is determined by plaintext,
\* key and nonce, and opens only under the same key and nonce.
Aead(data, key, nonce) == [pt |-> data, key |-> key, nonce |-> nonce]

\* cipher.decrypt(nonce, ciphertext): the plaintext, or an error when the tag
\* does not verify.
cipher_decrypt(bytes, key, nonce) ==
    IF bytes.key = key /\ bytes.nonce = nonce
    THEN [ok |-> TRUE, val |-> bytes.pt]
    ELSE [ok |-> FALSE, val |-> ""]

\* hex::encode: the text form of the bytes.
hex_encode(bytes) ==
    [hex |-> TRUE, pt |-> bytes.pt, key |-> bytes.key, nonce |-> bytes.nonce]

\* hex::decode: the bytes again, or an error for text that is not hex.
hex_decode(text) ==
    IF text.hex
    THEN [ok |-> TRUE, val |-> Aead(text.pt, text.key, text.nonce)]
    ELSE [ok |-> FALSE, val |-> Aead("", "", "")]

\* The nonce drawn by generate_nonce is returned with the ciphertext, not
\* the one the ciphertext was made with.
encrypt_ReturnsOtherNonce(data, key, nonce) ==
    <<hex_encode(Aead(data, key, nonce)), CHOOSE n \in AeadNonces : n # nonce>>

\* nonce is the outcome of generate_nonce() in this call.
encrypt(data, key, nonce) == <<hex_encode(Aead(data, key, nonce)), nonce>>

\* Both expect() calls abort the process; only the UTF-8 conversion of the
\* plaintext returns Err (and a plaintext that encrypt was given is UTF-8).
decrypt(ciphertext, key, nonce) ==
    LET decoded == hex_decode(ciphertext) IN
    IF ~decoded.ok THEN [ok |-> FALSE, aborts |-> TRUE, val |-> "decoding failure!"]
    ELSE LET plaintext == cipher_decrypt(decoded.val, key, nonce) IN
         IF ~plaintext.ok
         THEN [ok |-> FALSE, aborts |-> TRUE, val |-> "decryption failure!"]
         ELSE [ok |-> TRUE, aborts |-> FALSE, val |-> plaintext.val]

AccountJson(name, key, encPw, encSeed) ==
    [kind |-> "account",
     account_name |-> name,
     encrypted_password |-> encPw[1],
     password_nonce |-> encPw[2],
     encrypted_seed_phrase |-> encSeed[1],
     seed_nonce |-> encSeed[2],
     encryption_key |-> key]

\* state_json["logged_in_account"].as_str(): the name, or nothing when the
\* file is missing or holds no such string.
load_account_name(fs) ==
    IF fs[STATE_STEM].kind = "session" THEN fs[STATE_STEM].logged_in_account
    ELSE Null

\* The names a directory entry of the storage directory may have: the file
\* stems, and the directories save_history_to_file creates.
EntryNames == Stems \cup {"mainnet", "sepolia"}

\* No "- <name>" line was printed.
NothingListed == [n \in EntryNames |-> 0]

\* An Option<String> that holds nothing, and one that holds s.
NoneArg == [some |-> FALSE, v |-> <<>>]

Some(s) == [some |-> TRUE, v |-> s]

Outcome(op, name, printed, shown) ==
    [op |-> op, name |-> name, result |-> printed, shown |-> shown,
     listed |-> NothingListed, token_value |-> NoneArg, private_key |-> Null]

\* The last account command and what it printed.
NoOutcome == Outcome("none", Null, Null, Null)

(***************************************************************************)
(* Key derivation (Mnemonic::parse, to_seed, SigningKey, LocalWallet):      *)
(* a deterministic, injective map from the phrase to the wallet address.    *)
(***************************************************************************)
NoAddr == 0

\* format!("{:?}", address): lower-case hex with the 0x prefix.
FormatAddress == [a \in {0, 161, 178, 195} |->
                    CASE a = 161 -> "0xa1" [] a = 178 -> "0xb2"
                      [] a = 195 -> "0xc3" [] OTHER -> "0x00"]

AddressOfPhrase == [ph \in Phrases |-> IF ph = "ph1" THEN 161 ELSE 178]

\* hex::encode(wallet.signer().to_bytes()): the first 32 bytes of the seed
\* the phrase expands to.
PrivateKeyOfPhrase == [ph \in Phrases |-> IF ph = "ph1" THEN "sk1" ELSE "sk2"]

\* AccountService::get_wallet is called by the orchestrator but is not part
\* of the sources; it is modelled from the design notes: the wallet of the
\* logged-in account, built from the persisted files when the command starts.
get_wallet(fs) ==
    LET name == load_account_name(fs) IN
    IF name = Null THEN NoAddr
    ELSE IF fs[name].kind # "account" THEN NoAddr
    ELSE LET rec == fs[name]
             seed == decrypt(rec.encrypted_seed_phrase, rec.encryption_key, rec.seed_nonce)
         IN IF seed.ok THEN AddressOfPhrase[seed.val] ELSE NoAddr

(***************************************************************************)
(* NetworkService: the registry of network profiles and the current         *)
(* network, rebuilt from the presets and networks.json by every invocation. *)
(***************************************************************************)
NetworkInfo(name, url, native_token, chain_id) ==
    [name |-> name, url |-> url, native_token |-> native_token, chain_id |-> chain_id]

PresetKeys == {"ethereum_mainnet", "ethereum_sepolia", "polygon_mainnet", "polygon_amoy",
               "optimism_mainnet", "optimism_sepolia", "bsc_mainnet", "bsc_testnet",
               "arbitrum_mainnet", "arbitrum_sepolia"}

\* NetworkService::new before load_state: the ten presets, none with a URL.
PresetNetworks ==
    [k \in PresetKeys |->
       CASE k = "ethereum_mainnet" -> NetworkInfo("Ethereum Mainnet", Null, "ETH", 1)
         [] k = "ethereum_sepolia" -> NetworkInfo("Ethereum Sepolia", Null, "ETH", 11155111)
         [] k = "polygon_mainnet" -> NetworkInfo("Polygon Mainnet", Null, "POL", 137)
         [] k = "polygon_amoy" -> NetworkInfo("Polygon Amoy", Null, "POL", 80002)
         [] k = "optimism_mainnet" -> NetworkInfo("Optimism Mainnet", Null, "ETH", 10)
         [] k = "optimism_sepolia" -> NetworkInfo("Optimism Sepolia", Null, "ETH", 11155420)
         [] k = "bsc_mainnet" -> NetworkInfo("Binance Smart Chain Mainnet", Null, "BNB", 56)
         [] k = "bsc_testnet" -> NetworkInfo("Binance Smart Chain Testnet", Null, "BNB", 97)
         [] k = "arbitrum_mainnet" -> NetworkInfo("Arbitrum Mainnet", Null, "ETH", 42161)
         [] k = "arbitrum_sepolia" -> NetworkInfo("Arbitrum Sepolia", Null, "ETH", 421614)]

\* Network names a user can type; to_lowercase of each.
NetworkNames == {"a", "A", "b", "ethereum_mainnet", "Ethereum_Mainnet"}

to_lowercase == [n \in NetworkNames |->
                   CASE n = "A" -> "a"
                     [] n = "Ethereum_Mainnet" -> "ethereum_mainnet"
                     [] OTHER -> n]

\* HashMap::insert: the entry under the key is added or replaced.
insert(networks, key, info) ==
    [k \in DOMAIN networks \cup {key} |-> IF k = key THEN info ELSE networks[k]]

\* json!({"current_network": .., "networks": {key: {name, url, native_token,
\* chain_id}}})
RegistryJson(service) ==
    [kind |-> "registry",
     current_network |-> service.current_network,
     networks |-> [k \in DOMAIN service.networks |->
                     [name |-> service.networks[k].name,
                      url |-> service.networks[k].url,
                      native_token |-> service.networks[k].native_token,
                      chain_id |-> service.networks[k].chain_id]]]

\* fs::write(STORAGE_FILE, state.to_string())
save_state(service, fs) == [fs EXCEPT ![NETWORKS_STEM] = RegistryJson(service)]

\* One entry of the file's "networks" object read back; a field that is
\* missing gets its default.
NetworkInfoOfJson(value) ==
    NetworkInfo(IF "name" \in DOMAIN value THEN value.name ELSE "",
                IF "url" \in DOMAIN value THEN value.url ELSE Null,
                IF "native_token" \in DOMAIN value THEN value.native_token ELSE "",
                IF "chain_id" \in DOMAIN value THEN value.chain_id ELSE 0)

\* A file that is missing or is not JSON leaves the service as it is; so
\* does JSON that has neither a "current_network" string nor a "networks"
\* object (a session or an account record).  Entries of the file are
\* inserted over the in-memory ones.
load_state(service, fs) ==
    LET state_json == fs[NETWORKS_STEM] IN
    IF state_json.kind # "registry" THEN service
    ELSE [current_network |->
             IF state_json.current_network # Null THEN state_json.current_network
             ELSE service.current_network,
          networks |->
             [k \in DOMAIN service.networks \cup DOMAIN state_json.networks |->
                IF k \in DOMAIN state_json.networks
                THEN NetworkInfoOfJson(state_json.networks[k])
                ELSE service.networks[k]]]

NetworkService_new(fs) ==
    load_state([networks |-> PresetNetworks, current_network |-> Null], fs)

(***************************************************************************)
(* Text conversions used by the transaction pipeline                        *)
(***************************************************************************)
\* Command-line strings are sequences of characters.
DigitOf == [c \in {"0", "1", "2", "3", "4", "5", "6", "7", "8", "9"} |->
              CASE c = "0" -> 0 [] c = "1" -> 1 [] c = "2" -> 2 [] c = "3" -> 3
                [] c = "4" -> 4 [] c = "5" -> 5 [] c = "6" -> 6 [] c = "7" -> 7
                [] c = "8" -> 8 [] c = "9" -> 9]

RECURSIVE DecValue(_)
DecValue(s) ==
    IF s = <<>> THEN 0
    ELSE DecValue(SubSeq(s, 1, Len(s) - 1)) * 10 + DigitOf[s[Len(s)]]

\* U256::from_dec_str: every byte must be a decimal digit; the accumulator
\* starts at zero, so the empty string parses as 0.  (Inputs here are far
\* shorter than the 78 digits at which a U256 overflows.)
from_dec_str(s) ==
    IF \E i \in 1..Len(s) : s[i] \notin DOMAIN DigitOf
    THEN [ok |-> FALSE, val |-> 0]
    ELSE [ok |-> TRUE, val |-> DecValue(s)]

HexChar == <<"0", "1", "2", "3", "4", "5", "6", "7", "8", "9", "a", "b", "c", "d", "e", "f">>

RECURSIVE HexDigits(_)
HexDigits(n) ==
    IF n < 16 THEN <<HexChar[n + 1]>>
    ELSE Append(HexDigits(n \div 16), HexChar[(n % 16) + 1])

\* format!("{:#x}", u256)
LowerHex(n) == <<"0", "x">> \o HexDigits(n)

\* Address::from_str: forty hex digits, upper or lower case, with or without
\* 0x.  The strings below stand for such inputs; any other string is
\* rejected.
AddressStrings == {"0xB2", "b2", "0xC3"}

from_str(s) ==
    IF s \notin AddressStrings THEN [ok |-> FALSE, val |-> NoAddr]
    ELSE [ok |-> TRUE, val |-> IF s = "0xC3" THEN 195 ELSE 178]

(***************************************************************************)
(* Token contract call data                                                 *)
(***************************************************************************)
\* config.rs: the functions the ABI string declares.
ERC20_ABI == {"balanceOf"}

TRANSFER_SELECTOR == <<169, 5, 156, 187>>

RECURSIVE BigEndian(_, _)
BigEndian(n, width) ==
    IF width = 0 THEN <<>>
    ELSE Append(BigEndian(n \div 256, width - 1), n % 256)

\* transfer(address,uint256): selector, address left-padded to 32 bytes,
\* amount as a 32-byte big-endian word.
encode_transfer(to_address, amount) ==
    TRANSFER_SELECTOR \o BigEndian(to_address, 32) \o BigEndian(amount, 32)

RECURSIVE FromBigEndian(_)
FromBigEndian(bytes) ==
    IF bytes = <<>> THEN 0
    ELSE FromBigEndian(SubSeq(bytes, 1, Len(bytes) - 1)) * 256 + bytes[Len(bytes)]

RECURSIVE DecDigits(_)
DecDigits(n) ==
    IF n < 10 THEN <<HexChar[n + 1]>>
    ELSE Append(DecDigits(n \div 10), HexChar[(n % 10) + 1])

(***************************************************************************)
(* Transactions and history records                                         *)
(***************************************************************************)
\* An Option that holds nothing.
None == -1

NoSig == [by |-> NoAddr, nonce |-> None, chain_id |-> None]

\* TypedTransaction (always the Legacy variant of a TransactionRequest) with
\* the signature made over it.
EmptyTx ==
    [from |-> NoAddr, to |-> NoAddr, value |-> None, gas_price |-> None,
     data |-> <<>>, gas |-> None, nonce |-> None, chain_id |-> None, sig |-> NoSig]

\* The locals of send / send_token and of save_history_to_file that live
\* across a suspension point.
NoLocals ==
    [gas_limit_in_units |-> None, nonce |-> None, path |-> <<"", "">>, history |-> <<>>]

StoredTransaction(tx_type, from, to, gas, gas_price, value, token_value) ==
    [type |-> tx_type, from |-> from, to |-> to, gas |-> gas,
     gas_price |-> gas_price, value |-> value, token_value |-> token_value]

\* The recipient is taken from the outer transaction, not from the call data.
from_typed_transaction_KeepsOuterTo(t) ==
    LET input_data == t.data
        is_transfer == Len(input_data) >= 68 /\ SubSeq(input_data, 1, 4) = TRANSFER_SELECTOR
        token_amount == FromBigEndian(SubSeq(input_data, 37, 68))
    IN StoredTransaction(
         "Legacy",
         FormatAddress[t.from],
         FormatAddress[t.to],
         IF t.gas = None THEN <<>> ELSE LowerHex(t.gas),
         IF t.gas_price = None THEN <<>> ELSE LowerHex(t.gas_price),
         IF t.value = None THEN <<"0", "x", "0">> ELSE LowerHex(t.value),
         IF is_transfer THEN Some(DecDigits(token_amount)) ELSE NoneArg)

\* tx.data() of 68 bytes or more that starts with the transfer selector is
\* decoded: bytes 16..36 are the recipient, bytes 36..68 the amount.
from_typed_transaction(t) ==
    LET input_data == t.data
        is_transfer == Len(input_data) >= 68 /\ SubSeq(input_data, 1, 4) = TRANSFER_SELECTOR
        recipient_address == FromBigEndian(SubSeq(input_data, 17, 36))
        token_amount == FromBigEndian(SubSeq(input_data, 37, 68))
    IN StoredTransaction(
         "Legacy",
         FormatAddress[t.from],
         IF is_transfer THEN FormatAddress[recipient_address] ELSE FormatAddress[t.to],
         IF t.gas = None THEN <<>> ELSE LowerHex(t.gas),
         IF t.gas_price = None THEN <<>> ELSE LowerHex(t.gas_price),
         IF t.value = None THEN <<"0", "x", "0">> ELSE LowerHex(t.value),
         IF is_transfer THEN Some(DecDigits(token_amount)) ELSE NoneArg)

\* wallet.sign_transaction: the signature covers the transaction as it is
\* when signed.
sign_transaction(w, t) == [by |-> w, nonce |-> t.nonce, chain_id |-> t.chain_id]

\* ---------------------------------------------------------- history files
Networks == {"mainnet", "sepolia"}

\* load_account_name().unwrap_or_default(): "" when nobody is logged in.
HistoryAccounts == Names \cup {""}

NoHistoryFile == [kind |-> "missing", txs |-> <<>>]

\* A tx_history.json that does not hold a JSON array of records.
GarbageHistory == [kind |-> "garbage", txs |-> <<>>]

HistoryFile(txs) == [kind |-> "array", txs |-> txs]

tx_history_file(fs, network_name) ==
    LET account_name == load_account_name(fs) IN
    <<IF account_name = Null THEN "" ELSE account_name, network_name>>

\* Vec::new() when the path does not exist and when serde_json::from_reader
\* fails; the records otherwise.
load_history_from_file(fs, hist, network_name) ==
    LET path == tx_history_file(fs, network_name) IN
    IF hist[path].kind = "missing" THEN <<>>
    ELSE IF hist[path].kind # "array" THEN <<>>
    ELSE hist[path].txs

(***************************************************************************)
(* The provider                                                             *)
(***************************************************************************)
\* What the node may answer.  Err is a failed round trip.
Pending == -1

Err == -2

GasPriceReplies == {20}

GasEstimates == {21000}

TransactionCounts == {5, 6}

ChainIds == {1, 137}

Accepted == 1

TxHash == "0xh1"

Call(method) == [method |-> method, reply |-> Pending]

\* The last call of the log gets its answer.
Answered(c, reply) == [c EXCEPT ![Len(c)].reply = reply]

(***************************************************************************)
(* TransactionService::send and ::send_token.  A send runs from one         *)
(* suspension point (a provider call awaiting its reply) to the next; pc    *)
(* names the call being awaited.  Each operator below is one stretch of     *)
(* the function body and yields the position reached.                       *)
(***************************************************************************)
Running(at, t, c, l) == [pc |-> at, tx |-> t, calls |-> c, locals |-> l, result |-> Null]

Failed(t, c, l, msg) == [pc |-> "idle", tx |-> t, calls |-> c, locals |-> l, result |-> msg]

Issue(method, t, c, l) == Running(method, t, Append(c, Call(method)), l)

\* The chain id is asked for in place of the transaction count.
resolve_nonce_AsksChainId(t, c, l) == Issue("get_chainid", t, c, l)

\* let nonce = provider.get_transaction_count(wallet.address(), None).await?
resolve_nonce(t, c, l) == Issue("get_transaction_count", t, c, l)

\* let gas_limit_in_units = match gas_limit { ... }
resolve_gas_limit(r, t, c, l) ==
    IF r.gas_limit.some
    THEN LET gl == from_dec_str(r.gas_limit.v) IN
         IF ~gl.ok THEN Failed(t, c, l, "Invalid gas limit format")
         ELSE resolve_nonce(t, c, [l EXCEPT !.gas_limit_in_units = gl.val])
    ELSE Issue("estimate_gas", t, c, l)

\* TransactionRequest::pay(to_address, value_in_wei).from(..).gas_price(..)
build_pay(r, w, c, l, gas_price_in_wei) ==
    LET t == [EmptyTx EXCEPT !.to = from_str(r.to).val,
                             !.value = from_dec_str(r.value).val,
                             !.from = w,
                             !.gas_price = gas_price_in_wei]
    IN resolve_gas_limit(r, t, c, l)

\* contract.method("transfer", (to_address, value_in_wei)).from(..)
\* .gas_price(..): the call goes to the token contract, the recipient and the
\* amount are in the call data.
transfer_request(token_address, to_address, value_in_wei, w, gas_price_in_wei) ==
    [EmptyTx EXCEPT !.to = token_address,
                    !.data = encode_transfer(to_address, value_in_wei),
                    !.from = w,
                    !.gas_price = gas_price_in_wei]

\* The token address is parsed and the transfer call is built once the gas
\* price is known.
build_transfer(r, w, c, l, gas_price_in_wei) ==
    LET token_address == from_str(r.token_address) IN
    IF ~token_address.ok THEN Failed(EmptyTx, c, l, "Invalid token address format")
    ELSE IF "transfer" \notin ERC20_ABI THEN Failed(EmptyTx, c, l, "Invalid name: transfer")
    ELSE resolve_gas_limit(r, transfer_request(token_address.val, from_str(r.to).val,
                                               from_dec_str(r.value).val, w,
                                               gas_price_in_wei),
                           c, l)

after_gas_price(r, w, c, l, gas_price_in_wei) ==
    IF r.kind = "send" THEN build_pay(r, w, c, l, gas_price_in_wei)
    ELSE build_transfer(r, w, c, l, gas_price_in_wei)

\* The provider is asked for the gas price whatever the caller supplied.
resolve_gas_price_AlwaysAsks(r, w, c, l) == Issue("get_gas_price", EmptyTx, c, l)

\* let gas_price_in_wei = match gas_price { ... }
resolve_gas_price(r, w, c, l) ==
    IF r.gas_price.some
    THEN LET gp == from_dec_str(r.gas_price.v) IN
         IF ~gp.ok THEN Failed(EmptyTx, c, l, "Invalid gas price format")
         ELSE after_gas_price(r, w, c, l, gp.val)
    ELSE Issue("get_gas_price", EmptyTx, c, l)

\* The amount is not parsed before the gas price is resolved.
draft_SkipsAmount(r, w) ==
    IF ~from_str(r.to).ok
    THEN Failed(EmptyTx, <<>>, NoLocals, "Invalid destination address format")
    ELSE IF ~r.provider THEN Failed(EmptyTx, <<>>, NoLocals, "Provider not set")
    ELSE IF w = NoAddr THEN Failed(EmptyTx, <<>>, NoLocals, "Wallet not set")
    ELSE resolve_gas_price(r, w, <<>>, NoLocals)

\* The head of both functions: parse the arguments, then require the
\* provider and the wallet.
draft(r, w) ==
    IF ~from_str(r.to).ok
    THEN Failed(EmptyTx, <<>>, NoLocals, "Invalid destination address format")
    ELSE IF ~from_dec_str(r.value).ok
    THEN Failed(EmptyTx, <<>>, NoLocals, "Invalid amount format")
    ELSE IF ~r.provider THEN Failed(EmptyTx, <<>>, NoLocals, "Provider not set")
    ELSE IF w = NoAddr THEN Failed(EmptyTx, <<>>, NoLocals, "Wallet not set")
    ELSE resolve_gas_price(r, w, <<>>, NoLocals)

Request(kind, to, value, token_address, gas_price, gas_limit, network_name, provider) ==
    [kind |-> kind, to |-> to, value |-> value, token_address |-> token_address,
     gas_price |-> gas_price, gas_limit |-> gas_limit,
     network_name |-> network_name, provider |-> provider]

NoRequest == Request("none", "", <<>>, "", NoneArg, NoneArg, "", FALSE)

\* The position o reached by process p becomes its state; the outcome holds
\* what the function returned (Null while it is still running).
Reach(p, r, w, o) ==
    /\ pc' = [pc EXCEPT ![p] = o.pc]
    /\ req' = [req EXCEPT ![p] = r]
    /\ wallet' = [wallet EXCEPT ![p] = w]
    /\ tx' = [tx EXCEPT ![p] = o.tx]
    /\ calls' = [calls EXCEPT ![p] = o.calls]
    /\ locals' = [locals EXCEPT ![p] = o.locals]
    /\ last' = [last EXCEPT ![p] = Outcome(r.kind, Null, o.result, Null)]

\* Orchestrator::handle_command followed by TransactionService::send up to
\* its first provider call.
send(p, to, value, gas_price, gas_limit, network_name, provider) ==
    LET r == Request("send", to, value, "", gas_price, gas_limit, network_name, provider)
        w == get_wallet(files)
    IN /\ pc[p] = "idle"
       /\ Reach(p, r, w, draft(r, w))
       /\ network_service' = [network_service EXCEPT ![p] = NetworkService_new(files)]
       /\ UNCHANGED <<files, history>>

send_token(p, to, value, token_address, gas_price, gas_limit, network_name, provider) ==
    LET r == Request("send_token", to, value, token_address, gas_price, gas_limit,
                     network_name, provider)
        w == get_wallet(files)
    IN /\ pc[p] = "idle"
       /\ Reach(p, r, w, draft(r, w))
       /\ network_service' = [network_service EXCEPT ![p] = NetworkService_new(files)]
       /\ UNCHANGED <<files, history>>

\* provider.get_gas_price().await?
get_gas_price_returns(p, reply) ==
    /\ pc[p] = "get_gas_price"
    /\ LET c == Answered(calls[p], reply) IN
       Reach(p, req[p], wallet[p],
             IF reply = Err THEN Failed(tx[p], c, locals[p], "NetworkError")
             ELSE after_gas_price(req[p], wallet[p], c, locals[p], reply))
    /\ UNCHANGED <<files, history, network_service>>

\* provider.estimate_gas(&typed_tx, None).await?
estimate_gas_returns(p, reply) ==
    /\ pc[p] = "estimate_gas"
    /\ LET c == Answered(calls[p], reply) IN
       Reach(p, req[p], wallet[p],
             IF reply = Err THEN Failed(tx[p], c, locals[p], "NetworkError")
             ELSE resolve_nonce(tx[p], c, [locals[p] EXCEPT !.gas_limit_in_units = reply]))
    /\ UNCHANGED <<files, history, network_service>>

\* ... get_transaction_count(..).await?; then provider.get_chainid() is called
get_transaction_count_returns(p, reply) ==
    /\ pc[p] = "get_transaction_count"
    /\ LET c == Answered(calls[p], reply) IN
       Reach(p, req[p], wallet[p],
             IF reply = Err THEN Failed(tx[p], c, locals[p], "NetworkError")
             ELSE Issue("get_chainid", tx[p], c, [locals[p] EXCEPT !.nonce = reply]))
    /\ UNCHANGED <<files, history, network_service>>

\* The nonce is a remembered value, not the one just fetched.
bind_and_sign_StaleNonce(w, t, l, chain_id) ==
    LET typed_tx == [t EXCEPT !.chain_id = chain_id,
                              !.gas = l.gas_limit_in_units,
                              !.nonce = 5]
    IN [typed_tx EXCEPT !.sig = sign_transaction(w, typed_tx)]

\* set_chain_id, set_gas, set_nonce; sign; rlp_signed; send_raw_transaction
bind_and_sign(w, t, l, chain_id) ==
    LET typed_tx == [t EXCEPT !.chain_id = chain_id,
                              !.gas = l.gas_limit_in_units,
                              !.nonce = l.nonce]
    IN [typed_tx EXCEPT !.sig = sign_transaction(w, typed_tx)]

get_chainid_returns(p, reply) ==
    /\ pc[p] = "get_chainid"
    /\ LET c == Answered(calls[p], reply) IN
       Reach(p, req[p], wallet[p],
             IF reply = Err THEN Failed(tx[p], c, locals[p], "NetworkError")
             ELSE Issue("send_raw_transaction",
                        bind_and_sign(wallet[p], tx[p], locals[p], reply), c, locals[p]))
    /\ UNCHANGED <<files, history, network_service>>

\* The result of the broadcast is not checked.
send_raw_transaction_returns_IgnoresError(p, reply) ==
    /\ pc[p] = "send_raw_transaction"
    /\ Reach(p, req[p], wallet[p],
             Running("save_history_to_file", tx[p], Answered(calls[p], reply), locals[p]))
    /\ UNCHANGED <<files, history, network_service>>

\* provider.send_raw_transaction(signed_tx_bytes).await?; the hash is printed
\* and save_history_to_file begins.
send_raw_transaction_returns(p, reply) ==
    /\ pc[p] = "send_raw_transaction"
    /\ LET c == Answered(calls[p], reply) IN
       Reach(p, req[p], wallet[p],
             IF reply = Err THEN Failed(tx[p], c, locals[p], "NetworkError")
             ELSE Running("save_history_to_file", tx[p], c, locals[p]))
    /\ UNCHANGED <<files, history, network_service>>

\* The new record is pushed onto an empty vector: the file is not loaded.
save_history_load_NoLoad(p) ==
    /\ pc[p] = "save_history_to_file"
    /\ locals' = [locals EXCEPT ![p].path = tx_history_file(files, req[p].network_name),
                                ![p].history = <<from_typed_transaction(tx[p])>>]
    /\ pc' = [pc EXCEPT ![p] = "write_history"]
    /\ UNCHANGED <<files, history, last, req, wallet, tx, calls, network_service>>

\* save_history_to_file, first half: the path is taken from the session, the
\* whole file is loaded and the new record pushed onto the loaded vector.
save_history_load(p) ==
    /\ pc[p] = "save_history_to_file"
    /\ LET path == tx_history_file(files, req[p].network_name)
           loaded == load_history_from_file(files, history, req[p].network_name)
       IN /\ locals' = [locals EXCEPT ![p].path = path,
                                      ![p].history =
                                          Append(loaded, from_typed_transaction(tx[p]))]
          /\ pc' = [pc EXCEPT ![p] = "write_history"]
    /\ UNCHANGED <<files, history, last, req, wallet, tx, calls, network_service>>

\* A true append: the record is added to whatever the file holds now.
save_history_write_Appends(p) ==
    /\ pc[p] = "write_history"
    /\ history' = [history EXCEPT ![locals[p].path] =
                      HistoryFile(Append(history[locals[p].path].txs,
                                         from_typed_transaction(tx[p])))]
    /\ pc' = [pc EXCEPT ![p] = "idle"]
    /\ last' = [last EXCEPT ![p] = Outcome(req[p].kind, Null, "Ok", TxHash)]
    /\ UNCHANGED <<files, req, wallet, tx, calls, locals, network_service>>

\* save_history_to_file, second half: the file is truncated and rewritten
\* with the vector; send returns Ok(hash).
save_history_write(p) ==
    /\ pc[p] = "write_history"
    /\ history' = [history EXCEPT ![locals[p].path] = HistoryFile(locals[p].history)]
    /\ pc' = [pc EXCEPT ![p] = "idle"]
    /\ last' = [last EXCEPT ![p] = Outcome(req[p].kind, Null, "Ok", TxHash)]
    /\ UNCHANGED <<files, req, wallet, tx, calls, locals, network_service>>

\* tx_hash.parse::<H256>(): the strings that are a hash.
HashStrings == {TxHash}

\* Orchestrator::handle_command followed by TransactionService::info up to
\* provider.get_transaction(hash).await.
info(p, tx_hash, provider) ==
    LET r == [NoRequest EXCEPT !.kind = "tx_info", !.provider = provider]
    IN /\ pc[p] = "idle"
       /\ Reach(p, r, get_wallet(files),
                IF ~provider THEN Failed(EmptyTx, <<>>, NoLocals, "Provider not set")
                ELSE IF tx_hash \notin HashStrings
                THEN Failed(EmptyTx, <<>>, NoLocals, "Invalid hash")
                ELSE Issue("get_transaction", EmptyTx, <<>>, NoLocals))
       /\ network_service' = [network_service EXCEPT ![p] = NetworkService_new(files)]
       /\ UNCHANGED <<files, history>>

\* What the node answers to get_transaction: a failed round trip, no
\* transaction under the hash, or the transaction.
NoReply == [kind |-> "err", tx |-> EmptyTx]

NotFound == [kind |-> "none", tx |-> EmptyTx]

Found(t) == [kind |-> "some", tx |-> t]

\* The "To:" line of info: the recipient in the call data when the data is
\* 68 bytes or more and starts with the transfer selector, the outer
\* recipient otherwise.
info_to(transaction) ==
    LET input == transaction.data IN
    IF Len(input) >= 68 /\ SubSeq(input, 1, 4) = TRANSFER_SELECTOR
    THEN FormatAddress[FromBigEndian(SubSeq(input, 17, 36))]
    ELSE FormatAddress[transaction.to]

\* The "Token Value:" line of info: input.get(36..68) is Some whenever the
\* call data has 68 bytes or more; "Not applicable" otherwise.
info_token_value(transaction) ==
    LET input == transaction.data IN
    IF Len(input) >= 68
    THEN Some(DecDigits(FromBigEndian(SubSeq(input, 37, 68))))
    ELSE NoneArg

\* The rest of info, once the node has answered.
get_transaction_returns(p, reply) ==
    /\ pc[p] = "get_transaction"
    /\ pc' = [pc EXCEPT ![p] = "idle"]
    /\ calls' = [calls EXCEPT ![p] =
                    Answered(calls[p], IF reply.kind = "err" THEN Err ELSE Accepted)]
    /\ tx' = [tx EXCEPT ![p] = reply.tx]
    /\ last' = [last EXCEPT ![p] =
                   IF reply.kind = "err" THEN Outcome("tx_info", Null, "NetworkError", Null)
                   ELSE IF reply.kind = "none"
                   THEN Outcome("tx_info", Null, "Transaction not found", Null)
                   ELSE [Outcome("tx_info", Null, "Transaction Info", info_to(reply.tx))
                            EXCEPT !.token_value = info_token_value(reply.tx)]]
    /\ UNCHANGED <<files, history, req, wallet, locals, network_service>>

(***************************************************************************)
(* AccountService                                                           *)
(***************************************************************************)
Procs == {1, 2}

\* Every command is one invocation of the program, process p.  The
\* orchestrator sets the wallet first; an account command then prints its
\* outcome and the process holds no transaction.
FinishWith(p, outcome, service) ==
    /\ pc[p] = "idle"
    /\ last' = [last EXCEPT ![p] = outcome]
    /\ network_service' = [network_service EXCEPT ![p] = service]
    /\ wallet' = [wallet EXCEPT ![p] = get_wallet(files)]
    /\ req' = [req EXCEPT ![p] = NoRequest]
    /\ tx' = [tx EXCEPT ![p] = EmptyTx]
    /\ calls' = [calls EXCEPT ![p] = <<>>]
    /\ locals' = [locals EXCEPT ![p] = NoLocals]
    /\ UNCHANGED <<pc, history>>

\* A command that leaves the NetworkService as Orchestrator::new built it.
Finish(p, outcome) == FinishWith(p, outcome, NetworkService_new(files))

\* The passwords are compared after the record has been written.
create_account_ChecksAfterWrite(p, account_name, password, password_confirmation, seed_phrase, encryption_key, seed_nonce, password_nonce) ==
    LET encrypted_seed == encrypt(seed_phrase, encryption_key, seed_nonce)
        encrypted_password == encrypt(password, encryption_key, password_nonce)
        account_data == AccountJson(account_name, encryption_key,
                                    encrypted_password, encrypted_seed)
    IN /\ files' = [files EXCEPT ![account_name] = account_data]
       /\ Finish(p, IF password # password_confirmation
                    THEN Outcome("create", account_name, "Passwords do not match", Null)
                    ELSE Outcome("create", account_name, "created", seed_phrase))

\* seed_phrase, encryption_key and the two nonces are the outcomes of
\* Mnemonic::generate_in, generate_key and generate_nonce, drawn after the
\* passwords were compared.
create_account(p, account_name, password, password_confirmation, seed_phrase, encryption_key, seed_nonce, password_nonce) ==
    IF password # password_confirmation
    THEN /\ Finish(p, Outcome("create", account_name, "Passwords do not match", Null))
         /\ UNCHANGED files
    ELSE LET encrypted_seed == encrypt(seed_phrase, encryption_key, seed_nonce)
             encrypted_password == encrypt(password, encryption_key, password_nonce)
             account_data == AccountJson(account_name, encryption_key,
                                         encrypted_password, encrypted_seed)
         IN /\ files' = [files EXCEPT ![account_name] = account_data]
            /\ Finish(p, Outcome("create", account_name, "created", seed_phrase))

\* login without the return after "Incorrect password".
login_WritesSessionOnMismatch(p, account_name, password) ==
    LET account_json == files[account_name] IN
    IF account_json.kind # "account"
    THEN /\ Finish(p, Outcome("login", account_name, "Failed to read account data", Null))
         /\ UNCHANGED files
    ELSE LET decrypted_password == decrypt(account_json.encrypted_password,
                                           account_json.encryption_key,
                                           account_json.password_nonce)
         IN /\ files' = [files EXCEPT ![STATE_STEM] = SessionJson(account_name)]
            /\ Finish(p, Outcome("login", account_name,
                                 IF decrypted_password.val # password
                                 THEN "Incorrect password" ELSE "Login successful", Null))

login(p, account_name, password) ==
    LET account_json == files[account_name] IN
    IF account_json.kind = "missing"
    THEN /\ Finish(p, Outcome("login", account_name, "Failed to read account data", Null))
         /\ UNCHANGED files
    ELSE IF account_json.kind = "garbage"
    THEN /\ Finish(p, Outcome("login", account_name, "Failed to parse account data", Null))
         /\ UNCHANGED files
    ELSE IF \/ account_json.kind # "account"
            \/ account_json.encryption_key \notin Keys
            \/ account_json.password_nonce \notin AeadNonces
    THEN \* unwrap() on a field that is not there, expect() on one that is
         \* not hex
         /\ Finish(p, Outcome("login", account_name, "panic", Null))
         /\ UNCHANGED files
    ELSE LET decrypted_password == decrypt(account_json.encrypted_password,
                                           account_json.encryption_key,
                                           account_json.password_nonce)
         IN IF decrypted_password.aborts
            THEN /\ Finish(p, Outcome("login", account_name, "panic", Null))
                 /\ UNCHANGED files
            ELSE IF ~decrypted_password.ok
            THEN /\ Finish(p, Outcome("login", account_name, "Decryption failed", Null))
                 /\ UNCHANGED files
            ELSE IF decrypted_password.val # password
            THEN /\ Finish(p, Outcome("login", account_name, "Incorrect password", Null))
                 /\ UNCHANGED files
            ELSE /\ files' = [files EXCEPT ![STATE_STEM] = SessionJson(account_name)]
                 /\ Finish(p, Outcome("login", account_name, "Login successful", Null))

\* logout without the returns that precede the write.
logout_AlwaysWrites(p) ==
    /\ files' = [files EXCEPT ![STATE_STEM] = SessionJson(Null)]
    /\ Finish(p, Outcome("logout", Null,
                         IF load_account_name(files) = Null
                         THEN "No user is currently logged in" ELSE "Logout successful",
                         Null))

\* A state file that is missing, is not JSON, or has no logged_in_account
\* (null included) is left alone.
logout(p) ==
    IF load_account_name(files) = Null
    THEN /\ Finish(p, Outcome("logout", Null, "No user is currently logged in", Null))
         /\ UNCHANGED files
    ELSE /\ files' = [files EXCEPT ![STATE_STEM] = SessionJson(Null)]
         /\ Finish(p, Outcome("logout", Null, "Logout successful", Null))

\* The decrypted phrase is printed where the wallet address belongs.
account_info_ShowsPhrase(p) ==
    /\ UNCHANGED files
    /\ LET account_name == load_account_name(files) IN
       IF account_name = Null
       THEN Finish(p, Outcome("info", Null, "No user is currently logged in", Null))
       ELSE IF files[account_name].kind = "missing"
       THEN Finish(p, Outcome("info", account_name, "Failed to read account data", Null))
       ELSE IF files[account_name].kind = "garbage"
       THEN Finish(p, Outcome("info", account_name, "Failed to parse account data", Null))
       ELSE IF \/ files[account_name].kind # "account"
               \/ files[account_name].encryption_key \notin Keys
               \/ files[account_name].seed_nonce \notin AeadNonces
       THEN Finish(p, Outcome("info", account_name, "panic", Null))
       ELSE LET account_json == files[account_name]
                seed_phrase == decrypt(account_json.encrypted_seed_phrase,
                                       account_json.encryption_key,
                                       account_json.seed_nonce)
            IN IF seed_phrase.aborts
               THEN Finish(p, Outcome("info", account_name, "panic", Null))
               ELSE IF ~seed_phrase.ok
               THEN Finish(p, Outcome("info", account_name, "Decryption failed", Null))
               ELSE Finish(p, [Outcome("info", account_name, "Account Info", seed_phrase.val)
                                  EXCEPT !.private_key = PrivateKeyOfPhrase[seed_phrase.val]])

account_info(p) ==
    /\ UNCHANGED files
    /\ LET account_name == load_account_name(files) IN
       IF account_name = Null
       THEN Finish(p, Outcome("info", Null, "No user is currently logged in", Null))
       ELSE IF files[account_name].kind = "missing"
       THEN Finish(p, Outcome("info", account_name, "Failed to read account data", Null))
       ELSE IF files[account_name].kind = "garbage"
       THEN Finish(p, Outcome("info", account_name, "Failed to parse account data", Null))
       ELSE IF \/ files[account_name].kind # "account"
               \/ files[account_name].encryption_key \notin Keys
               \/ files[account_name].seed_nonce \notin AeadNonces
       THEN Finish(p, Outcome("info", account_name, "panic", Null))
       ELSE LET account_json == files[account_name]
                seed_phrase == decrypt(account_json.encrypted_seed_phrase,
                                       account_json.encryption_key,
                                       account_json.seed_nonce)
            IN IF seed_phrase.aborts
               THEN Finish(p, Outcome("info", account_name, "panic", Null))
               ELSE IF ~seed_phrase.ok
               THEN Finish(p, Outcome("info", account_name, "Decryption failed", Null))
               ELSE Finish(p, [Outcome("info", account_name, "Account Info",
                                       FormatAddress[AddressOfPhrase[seed_phrase.val]])
                                  EXCEPT !.private_key = PrivateKeyOfPhrase[seed_phrase.val]])

\* fs::read_dir(STORAGE_DIR): how many entries of the storage directory have
\* the file stem n.  The files are <stem>.json; the directories are those
\* create_dir_all made for a history file, storage/<account>/<network>, which
\* is storage/<network> when the account name is "".
read_dir(fs, hist, paths) ==
    [n \in EntryNames |->
        (IF n \in Stems /\ fs[n].kind # "missing" THEN 1 ELSE 0)
        + (IF \/ \E k \in DOMAIN hist :
                    /\ hist[k].kind # "missing"
                    /\ n = (IF k[1] = "" THEN k[2] ELSE k[1])
              \/ \E path \in paths : n = (IF path[1] = "" THEN path[2] ELSE path[1])
           THEN 1 ELSE 0)]

\* The history directories made by a save_history_to_file that has not
\* written its file yet.
DirectoriesMade == {locals[q].path : q \in {r \in Procs : pc[r] = "write_history"}}

\* list prints the file stem of every entry of the storage directory except
\* the stem "state".
list(p) ==
    /\ UNCHANGED files
    /\ LET entries == read_dir(files, history, DirectoriesMade) IN
       IF \A n \in EntryNames : entries[n] = 0
       THEN Finish(p, Outcome("list", Null, "Failed to read storage directory", Null))
       ELSE Finish(p, [Outcome("list", Null, "Available accounts", Null)
                          EXCEPT !.listed = [n \in EntryNames |->
                                                IF n # STATE_STEM THEN entries[n] ELSE 0]])

\* "No transaction history found" is reported only when there is no file.
history_command_ChecksFileOnly(p, network_name) ==
    LET path == tx_history_file(files, network_name) IN
    /\ Finish(p, Outcome("history", path[1],
                         IF history[path].kind = "missing"
                         THEN "No transaction history found"
                         ELSE "Transaction history", network_name))
    /\ UNCHANGED files

\* TransactionService::history
history_command(p, network_name) ==
    LET loaded == load_history_from_file(files, history, network_name)
        account_name == tx_history_file(files, network_name)[1]
    IN /\ Finish(p, Outcome("history", account_name,
                            IF loaded = <<>> THEN "No transaction history found"
                            ELSE "Transaction history", network_name))
       /\ UNCHANGED files

(***************************************************************************)
(* Network commands: Orchestrator::new builds the service (presets, then    *)
(* load_state), the command acts on it and saves it when it changed it.     *)
(***************************************************************************)
\* Some profile of the registry has the chain id.
chain_id_exists(networks, chain_id) ==
    \E k \in DOMAIN networks : networks[k].chain_id = chain_id

\* add_network without the look at the chain ids of the profiles.
add_network_NoChainIdCheck(p, network_name, url, native_token, chain_id) ==
    LET service == NetworkService_new(files) IN
    IF to_lowercase[network_name] \in DOMAIN service.networks
    THEN /\ FinishWith(p, Outcome("add_network", network_name, "Network already exists", Null),
                       service)
         /\ UNCHANGED files
    ELSE LET added == [service EXCEPT !.networks =
                          insert(service.networks, network_name,
                                 NetworkInfo(network_name, url, native_token, chain_id))]
         IN /\ FinishWith(p, Outcome("add_network", network_name, "added successfully", Null),
                          added)
            /\ files' = save_state(added, files)

add_network(p, network_name, url, native_token, chain_id) ==
    LET service == NetworkService_new(files) IN
    IF chain_id_exists(service.networks, chain_id)
    THEN /\ FinishWith(p, Outcome("add_network", network_name,
                                  "Network with chain ID already exists", Null), service)
         /\ UNCHANGED files
    ELSE IF to_lowercase[network_name] \in DOMAIN service.networks
    THEN /\ FinishWith(p, Outcome("add_network", network_name, "Network already exists", Null),
                       service)
         /\ UNCHANGED files
    ELSE LET added == [service EXCEPT !.networks =
                          insert(service.networks, network_name,
                                 NetworkInfo(network_name, url, native_token, chain_id))]
         IN /\ FinishWith(p, Outcome("add_network", network_name, "added successfully", Null),
                          added)
            /\ files' = save_state(added, files)

set_network_url(p, network_name, url) ==
    LET service == NetworkService_new(files) IN
    IF network_name \notin DOMAIN service.networks
    THEN /\ FinishWith(p, Outcome("set_network_url", network_name, "Network not found", Null),
                       service)
         /\ UNCHANGED files
    ELSE LET changed == [service EXCEPT !.networks[network_name].url = url]
         IN /\ FinishWith(p, Outcome("set_network_url", network_name, "URL has been set", Null),
                          changed)
            /\ files' = save_state(changed, files)

\* url is Null when the command line gives none.
switch_network(p, network_name, url) ==
    LET service == NetworkService_new(files) IN
    IF network_name \notin DOMAIN service.networks
    THEN /\ FinishWith(p, Outcome("switch_network", network_name, "Network not found", Null),
                       service)
         /\ UNCHANGED files
    ELSE LET network == service.networks[network_name]
             switched == [service EXCEPT
                            !.networks[network_name].url =
                                IF url # Null THEN url ELSE network.url,
                            !.current_network = network_name]
         IN /\ FinishWith(p, Outcome("switch_network", network_name,
                                     IF url # Null THEN "Switched, URL set"
                                     ELSE IF network.url # Null
                                     THEN "Switched, using existing URL"
                                     ELSE "Network requires a valid URL", Null),
                          switched)
            /\ files' = save_state(switched, files)

(***************************************************************************)
(* Specifications                                                           *)
(***************************************************************************)
\* How many records the history files may hold together before no further
\* send is started: in the specification of the pipeline (MaxSent) and in
\* those of the history (MaxHistory).
MaxSent == 1

MaxHistory == 2

RECURSIVE TotalRecords(_, _)
TotalRecords(h, keys) ==
    IF keys = {} THEN 0
    ELSE LET k == CHOOSE x \in keys : TRUE
         IN Len(h[k].txs) + TotalRecords(h, keys \ {k})

Stored(h) == TotalRecords(h, DOMAIN h)

InitProcs ==
    /\ history = [k \in HistoryAccounts \X Networks |-> NoHistoryFile]
    /\ last = [p \in Procs |-> NoOutcome]
    /\ pc = [p \in Procs |-> "idle"]
    /\ req = [p \in Procs |-> NoRequest]
    /\ wallet = [p \in Procs |-> NoAddr]
    /\ tx = [p \in Procs |-> EmptyTx]
    /\ calls = [p \in Procs |-> <<>>]
    /\ locals = [p \in Procs |-> NoLocals]
    /\ network_service = [p \in Procs |-> NetworkService_new(files)]

\* ------------------------------------------------------------- the vault
\* A fresh installation: no storage yet.
Init ==
    /\ files = [n \in Stems |-> NoFile]
    /\ InitProcs

\* The names accounts are created under in this specification.
CreateNames == {"alice", "state"}

Next ==
    \/ \E n \in CreateNames, pw \in Passwords, conf \in Passwords, ph \in Phrases,
          k \in Keys, sn \in AeadNonces, pn \in AeadNonces :
          create_account(1, n, pw, conf, ph, k, sn, pn)
    \/ \E n \in Names, pw \in Passwords : login(1, n, pw)
    \/ logout(1)
    \/ account_info(1)
    \/ list(1)

Spec == Init /\ [][Next]_vars

\* ------------------------------------------------- the pipeline of a send
ToInputs == {"0xB2", "zz"}

ValueInputs == {<<"1", "2">>, <<"-", "5">>, <<>>}

GasPriceInputs == {NoneArg, Some(<<"7">>), Some(<<"x">>)}

GasLimitInputs == {NoneArg, Some(<<"9">>), Some(<<"x">>)}

TokenInputs == {"0xC3", "zz"}

\* alice and bob have created their accounts.
CreatedFiles ==
    [n \in Stems |->
       CASE n = "alice" -> AccountJson("alice", "k1", encrypt("pw", "k1", "n1"),
                                       encrypt("ph1", "k1", "n2"))
         [] n = "bob" -> AccountJson("bob", "k2", encrypt("hunter2", "k2", "n2"),
                                     encrypt("ph2", "k2", "n1"))
         [] OTHER -> NoFile]

LoggedIn(name) == [CreatedFiles EXCEPT ![STATE_STEM] = SessionJson(name)]

\* alice is logged in, or nobody ever was.
InitSend ==
    /\ files \in {LoggedIn("alice"), CreatedFiles}
    /\ InitProcs

ProviderReturns(p) ==
    \/ \E reply \in GasPriceReplies \cup {Err} : get_gas_price_returns(p, reply)
    \/ \E reply \in GasEstimates \cup {Err} : estimate_gas_returns(p, reply)
    \/ \E reply \in TransactionCounts \cup {Err} : get_transaction_count_returns(p, reply)
    \/ \E reply \in ChainIds \cup {Err} : get_chainid_returns(p, reply)
    \/ \E reply \in {Accepted, Err} : send_raw_transaction_returns(p, reply)

NextSend ==
    \/ /\ Stored(history) < MaxSent
       /\ \E to \in ToInputs, value \in ValueInputs, gp \in GasPriceInputs,
             gl \in GasLimitInputs, provider \in BOOLEAN :
             send(1, to, value, gp, gl, "mainnet", provider)
    \/ /\ Stored(history) < MaxSent
       /\ \E to \in ToInputs, value \in ValueInputs, token \in TokenInputs,
             gp \in GasPriceInputs, gl \in GasLimitInputs, provider \in BOOLEAN :
             send_token(1, to, value, token, gp, gl, "mainnet", provider)
    \/ ProviderReturns(1)
    \/ save_history_load(1)
    \/ save_history_write(1)

SpecSend == InitSend /\ [][NextSend]_vars

\* ------------------------------------- sequential use: sessions and history
\* One command at a time; well-formed sends with and without a gas price.
InitHistory ==
    /\ files = CreatedFiles
    /\ InitProcs

NextHistory ==
    \/ \E n \in Names, pw \in Passwords : login(1, n, pw)
    \/ logout(1)
    \/ /\ Stored(history) < MaxHistory
       /\ \E gp \in {NoneArg, Some(<<"7">>)}, net \in Networks :
             send(1, "0xB2", <<"1", "2">>, gp, NoneArg, net, TRUE)
    \/ \E reply \in GasPriceReplies \cup {Err} : get_gas_price_returns(1, reply)
    \/ \E reply \in GasEstimates \cup {Err} : estimate_gas_returns(1, reply)
    \/ \E reply \in TransactionCounts \cup {Err} : get_transaction_count_returns(1, reply)
    \/ \E reply \in ChainIds \cup {Err} : get_chainid_returns(1, reply)
    \/ \E reply \in {Accepted, Err} : send_raw_transaction_returns(1, reply)
    \/ save_history_load(1)
    \/ save_history_write(1)

SpecHistory == InitHistory /\ [][NextHistory]_vars

\* ------------------------------- two invocations of the program at once
InitRace ==
    /\ files = LoggedIn("alice")
    /\ InitProcs

NextRace ==
    \E p \in Procs :
        \/ /\ Stored(history) < MaxHistory
           /\ send(p, "0xB2", <<"1", "2">>, Some(<<IF p = 1 THEN "7" ELSE "8">>),
                   Some(<<"9">>), "mainnet", TRUE)
        \/ \E reply \in TransactionCounts \cup {Err} : get_transaction_count_returns(p, reply)
        \/ \E reply \in ChainIds \cup {Err} : get_chainid_returns(p, reply)
        \/ \E reply \in {Accepted, Err} : send_raw_transaction_returns(p, reply)
        \/ save_history_load(p)
        \/ save_history_write(p)

SpecRace == InitRace /\ [][NextRace]_vars

\* --------------------------------- recording a token transfer in the history
\* save_history_to_file applied to the transaction that
\* contract.method("transfer", ..) yields for a recipient, an amount and a
\* token contract, bound and signed as send_token does.
AmountInputs == {<<"0">>, <<"7">>, <<"1", "2">>, <<"0", "0", "7">>, <<"2", "5", "6">>,
                 <<"7", "0", "0", "0", "0">>}

TransferInputs ==
    {Request("send_token", to, value, token, Some(<<"7">>), Some(<<"9">>), net, TRUE) :
        to \in AddressStrings, value \in AmountInputs, token \in AddressStrings,
        net \in Networks}

InitDecode ==
    /\ files = LoggedIn("alice")
    /\ history = [k \in HistoryAccounts \X Networks |-> NoHistoryFile]
    /\ last = [p \in Procs |-> NoOutcome]
    /\ calls = [p \in Procs |-> <<>>]
    /\ network_service = [p \in Procs |-> NetworkService_new(files)]
    /\ wallet = [p \in Procs |-> IF p = 1 THEN get_wallet(files) ELSE NoAddr]
    /\ \E r \in TransferInputs :
          LET l == [NoLocals EXCEPT !.gas_limit_in_units = from_dec_str(r.gas_limit.v).val,
                                    !.nonce = 5]
              t == transfer_request(from_str(r.token_address).val, from_str(r.to).val,
                                    from_dec_str(r.value).val, get_wallet(files),
                                    from_dec_str(r.gas_price.v).val)
          IN /\ req = [p \in Procs |-> IF p = 1 THEN r ELSE NoRequest]
             /\ locals = [p \in Procs |-> IF p = 1 THEN l ELSE NoLocals]
             /\ tx = [p \in Procs |->
                        IF p = 1 THEN bind_and_sign(get_wallet(files), t, l, 1) ELSE EmptyTx]
             /\ pc = [p \in Procs |-> IF p = 1 THEN "save_history_to_file" ELSE "idle"]

NextDecode ==
    \/ save_history_load(1)
    \/ save_history_write(1)

SpecDecode == InitDecode /\ [][NextDecode]_vars

\* ------------------------------------- a send while the session changes
\* Process 1 sends; process 2 logs in and out meanwhile.
NextSession ==
    \/ /\ Stored(history) < MaxHistory
       /\ send(1, "0xB2", <<"1", "2">>, Some(<<"7">>), Some(<<"9">>), "mainnet", TRUE)
    \/ \E reply \in {5, Err} : get_transaction_count_returns(1, reply)
    \/ \E reply \in {1, Err} : get_chainid_returns(1, reply)
    \/ \E reply \in {Accepted, Err} : send_raw_transaction_returns(1, reply)
    \/ save_history_load(1)
    \/ save_history_write(1)
    \/ \E n \in {"alice", "bob"}, pw \in {"pw", "hunter2"} : login(2, n, pw)
    \/ logout(2)

SpecSession == InitRace /\ [][NextSession]_vars

\* ------------------------------------------------ reading a transaction
\* approve(address,uint256)
APPROVE_SELECTOR == <<9, 94, 167, 179>>

\* Call data a transaction on the chain may carry: none, a transfer, a
\* transfer followed by more bytes, a transfer cut short, the selector with
\* one argument, and another call of the same length as a transfer.
CallData ==
    {<<>>,
     encode_transfer(178, 7),
     encode_transfer(195, 256),
     encode_transfer(178, 7) \o <<0>>,
     SubSeq(encode_transfer(178, 7), 1, 67),
     TRANSFER_SELECTOR \o BigEndian(178, 32),
     APPROVE_SELECTOR \o BigEndian(178, 32) \o BigEndian(7, 32)}

\* Signed transactions of alice that have been broadcast.
ChainTransactions ==
    {bind_and_sign(161, [EmptyTx EXCEPT !.from = 161, !.to = to, !.value = 12,
                                        !.gas_price = 7, !.data = data],
                   [NoLocals EXCEPT !.gas_limit_in_units = 21000, !.nonce = 5], 1) :
        to \in {178, 195}, data \in CallData}

\* Process 1 has broadcast a transaction and is about to file its record;
\* process 2 reads transactions from the node.
InitInfo ==
    /\ files = LoggedIn("alice")
    /\ history = [k \in HistoryAccounts \X Networks |-> NoHistoryFile]
    /\ last = [p \in Procs |-> NoOutcome]
    /\ calls = [p \in Procs |-> <<>>]
    /\ network_service = [p \in Procs |-> NetworkService_new(files)]
    /\ wallet = [p \in Procs |-> IF p = 1 THEN get_wallet(files) ELSE NoAddr]
    /\ locals = [p \in Procs |->
                   IF p = 1 THEN [NoLocals EXCEPT !.gas_limit_in_units = 21000, !.nonce = 5]
                   ELSE NoLocals]
    /\ \E t \in ChainTransactions, net \in Networks :
          /\ req = [p \in Procs |->
                      IF p = 1
                      THEN Request("send", "0xB2", <<"1", "2">>, "", Some(<<"7">>),
                                   Some(<<"2", "1", "0", "0", "0">>), net, TRUE)
                      ELSE NoRequest]
          /\ tx = [p \in Procs |-> IF p = 1 THEN t ELSE EmptyTx]
    /\ pc = [p \in Procs |-> IF p = 1 THEN "save_history_to_file" ELSE "idle"]

\* The node answers with the transaction process 1 broadcast.
NextInfo ==
    \/ save_history_load(1)
    \/ save_history_write(1)
    \/ \E tx_hash \in {TxHash, "zz"}, provider \in BOOLEAN : info(2, tx_hash, provider)
    \/ \E reply \in {NoReply, NotFound, Found(tx[1])} : get_transaction_returns(2, reply)

SpecInfo == InitInfo /\ [][NextInfo]_vars

\* -------------------------------------------------- the network registry
Urls == {"u1", "u2"}

NativeTokens == {"TOK"}

\* Chain id 1 is the one of the preset ethereum_mainnet.
ChainIdInputs == {1, 999, 1000}

\* The names the URL and switch commands are given here.
NetworkTargets == {"a", "A", "ethereum_mainnet"}

NextNetwork ==
    \/ \E n \in NetworkNames, token \in NativeTokens, id \in ChainIdInputs :
          add_network(1, n, "u1", token, id)
    \/ \E n \in NetworkTargets, url \in Urls : set_network_url(1, n, url)
    \/ \E n \in NetworkTargets, url \in Urls \cup {Null} : switch_network(1, n, url)
    \/ list(1)

SpecNetwork == Init /\ [][NextNetwork]_vars

\* ------------------------------------------- storage found as it may be
\* The commands that read the storage, started on a storage directory whose
\* files are sound, missing, not JSON, or changed in one field.
AliceRecord == AccountJson("alice", "k1", encrypt("pw", "k1", "n1"), encrypt("ph1", "k1", "n2"))

\* "zz" is not hex; "flipped" marks a ciphertext no key and nonce open.
DamagedRecords ==
    {[AliceRecord EXCEPT !.password_nonce = "n2"],
     [AliceRecord EXCEPT !.password_nonce = "zz"],
     [AliceRecord EXCEPT !.seed_nonce = "n1"],
     [AliceRecord EXCEPT !.encryption_key = "k2"],
     [AliceRecord EXCEPT !.encryption_key = "zz"],
     [AliceRecord EXCEPT !.encrypted_password.hex = FALSE],
     [AliceRecord EXCEPT !.encrypted_password.nonce = "flipped"],
     [AliceRecord EXCEPT !.encrypted_seed_phrase.hex = FALSE],
     [AliceRecord EXCEPT !.encrypted_seed_phrase.nonce = "flipped"]}

StoredSessions == {NoFile, Garbage, SessionJson(Null), SessionJson("alice"), SessionJson("bob")}

StoredHistories ==
    {NoHistoryFile, GarbageHistory,
     HistoryFile(<<StoredTransaction("Legacy", "0xa1", "0xb2", <<"0", "x", "9">>,
                                     <<"0", "x", "7">>, <<"0", "x", "c">>, NoneArg)>>)}

InitStorage ==
    /\ \E record \in {AliceRecord, NoFile, Garbage} \cup DamagedRecords,
          session \in StoredSessions :
          files = [n \in Stems |-> CASE n = "alice" -> record
                                     [] n = STATE_STEM -> session
                                     [] OTHER -> NoFile]
    /\ \E h \in StoredHistories :
          history = [k \in HistoryAccounts \X Networks |->
                       IF k = <<"alice", "mainnet">> THEN h ELSE NoHistoryFile]
    /\ last = [p \in Procs |-> NoOutcome]
    /\ pc = [p \in Procs |-> "idle"]
    /\ req = [p \in Procs |-> NoRequest]
    /\ wallet = [p \in Procs |-> NoAddr]
    /\ tx = [p \in Procs |-> EmptyTx]
    /\ calls = [p \in Procs |-> <<>>]
    /\ locals = [p \in Procs |-> NoLocals]
    /\ network_service = [p \in Procs |-> NetworkService_new(files)]

NextStorage ==
    \/ \E pw \in Passwords : login(1, "alice", pw)
    \/ logout(1)
    \/ account_info(1)
    \/ \E net \in Networks : history_command(1, net)

SpecStorage == InitStorage /\ [][NextStorage]_vars

(***************************************************************************)
(* Properties                                                               *)
(***************************************************************************)
Methods == {"get_gas_price", "estimate_gas", "get_transaction_count", "get_chainid",
            "send_raw_transaction"}

Rank == [m \in Methods |->
           CASE m = "get_gas_price" -> 1 [] m = "estimate_gas" -> 2
             [] m = "get_transaction_count" -> 3 [] m = "get_chainid" -> 4
             [] m = "send_raw_transaction" -> 5]

Called(p, m) == \E i \in 1..Len(calls[p]) : calls[p][i].method = m

ReplyTo(p, m) == calls[p][CHOOSE i \in 1..Len(calls[p]) : calls[p][i].method = m].reply

IsSend(p) == req[p].kind \in {"send", "send_token"}

\* The head of the send got past its own checks.
DraftOk(p) ==
    /\ IsSend(p)
    /\ req[p].to \in AddressStrings
    /\ \A i \in 1..Len(req[p].value) : req[p].value[i] \in DOMAIN DigitOf
    /\ req[p].provider
    /\ wallet[p] # NoAddr

Parseable(arg) == \A i \in 1..Len(arg.v) : arg.v[i] \in DOMAIN DigitOf

\* C1: for an existing account and any prior session, login with a password
\* other than the stored one reports "Incorrect password" and leaves the
\* state file as it was; login with the stored password makes the account the
\* logged-in one, whoever was logged in before.
C1_LoginAuthentication ==
    [][\A n \in Names, pw \in Passwords :
          (login(1, n, pw) /\ files[n].kind = "account") =>
             IF pw # files[n].encrypted_password.pt
             THEN /\ last'[1].result = "Incorrect password"
                  /\ files'[STATE_STEM] = files[STATE_STEM]
             ELSE /\ last'[1].result = "Login successful"
                  /\ load_account_name(files') = n]_vars

\* A wrong password for one account was refused while another was logged in.
C1_Witness ==
    /\ last[1].op = "login"
    /\ last[1].result = "Incorrect password"
    /\ load_account_name(files) \in Names \ {last[1].name}

\* C2: a history file changes only after send_raw_transaction was accepted; a
\* failed provider call is the last call of its send, which ends with a
\* network error and leaves the history as it was; no call is made twice.
C2_NoRecordWithoutBroadcast ==
    [][\A p \in Procs :
          LET c == calls[p]
              d == calls'[p]
          IN /\ (history' # history /\ pc'[p] # pc[p]) =>
                   /\ c # <<>>
                   /\ c[Len(c)] = [method |-> "send_raw_transaction", reply |-> Accepted]
             /\ \A i \in 1..Len(d) :
                   d[i].reply = Err =>
                      /\ i = Len(d)
                      /\ pc'[p] = "idle"
                      /\ last'[p].result = "NetworkError"
                      /\ history' = history
             /\ \A i, j \in 1..Len(d) : i < j => d[i].method # d[j].method]_vars

\* The broadcast failed after every other call succeeded: nothing is stored.
C2_Witness ==
    /\ last[1].result = "NetworkError"
    /\ Len(calls[1]) > 1
    /\ calls[1][Len(calls[1])] = [method |-> "send_raw_transaction", reply |-> Err]
    /\ tx[1].sig # NoSig
    /\ Stored(history) = 0

\* C3: a stored account record is never changed, and create for a name that
\* has a record reports a duplicate account.
C3_RecordCreatedOnce ==
    [][\A n \in Names :
          files[n].kind = "account" =>
             /\ files'[n] = files[n]
             /\ (last'[1].op = "create" /\ last'[1].name = n
                 /\ last'[1].result # "Passwords do not match")
                   => last'[1].result = "DuplicateAccountError"]_vars

C5_StaleWriteDropsAppend ==
    [][\A p \in Procs :
          LET path == locals[p].path
              old == history[path].txs
              new == history'[path].txs
          IN (pc[p] = "write_history" /\ pc'[p] = "idle"
              /\ Len(locals[p].history) <= Len(old))
                => /\ Len(new) <= Len(old)
                   /\ new[Len(new)] = from_typed_transaction(tx[p])]_vars

\* Both sends returned Ok and the file holds only the record of process 2.
C5_Witness ==
    /\ last[1].result = "Ok"
    /\ last[2].result = "Ok"
    /\ pc[1] = "idle" /\ pc[2] = "idle"
    /\ history[<<"alice", "mainnet">>].txs = <<from_typed_transaction(tx[2])>>
    /\ from_typed_transaction(tx[1]) # from_typed_transaction(tx[2])

\* C6: the provider calls of a send are made in the fixed order gas price,
\* gas estimate, transaction count, chain id, broadcast, each at most once and
\* only when every earlier call has returned a value; the gas price and the
\* gas estimate are asked for only when the caller gave none; the transaction
\* is signed once the chain id is bound, and only then broadcast.
C6_CallOrder ==
    \A p \in Procs :
        LET c == calls[p] IN
        /\ \A i, j \in 1..Len(c) : i < j => Rank[c[i].method] < Rank[c[j].method]
        /\ \A i \in 1..(Len(c) - 1) : c[i].reply \notin {Pending, Err}
        /\ IF pc[p] \in Methods
           THEN c # <<>> /\ c[Len(c)] = Call(pc[p])
           ELSE \A i \in 1..Len(c) : c[i].reply # Pending
        /\ Called(p, "get_gas_price") => ~req[p].gas_price.some
        /\ Called(p, "estimate_gas") => ~req[p].gas_limit.some
        /\ Called(p, "estimate_gas") \/ Called(p, "get_transaction_count")
              => (Called(p, "get_gas_price") <=> ~req[p].gas_price.some)
        /\ Called(p, "get_transaction_count")
              => (Called(p, "estimate_gas") <=> ~req[p].gas_limit.some)
        /\ Called(p, "get_chainid") => Called(p, "get_transaction_count")
        /\ Called(p, "send_raw_transaction") <=> tx[p].sig # NoSig
        /\ tx[p].sig # NoSig =>
              /\ Called(p, "get_chainid")
              /\ tx[p].sig.chain_id = ReplyTo(p, "get_chainid")

\* All five calls were made and answered.
C6_Witness ==
    /\ Len(calls[1]) = 5
    /\ calls[1][5].reply = Accepted
    /\ last[1].result = "Ok"

\* C7: the nonce and the chain id under a signature are the answers the
\* provider gave to get_transaction_count and get_chainid in that same send.
C7_FreshNonceAndChainId ==
    \A p \in Procs :
        tx[p].sig # NoSig =>
           /\ Called(p, "get_transaction_count")
           /\ Called(p, "get_chainid")
           /\ tx[p].sig.nonce = ReplyTo(p, "get_transaction_count")
           /\ tx[p].sig.chain_id = ReplyTo(p, "get_chainid")
           /\ tx[p].nonce = tx[p].sig.nonce
           /\ tx[p].chain_id = tx[p].sig.chain_id

\* A send signed with the second of the possible answers to each call.
C7_Witness ==
    /\ tx[1].sig.nonce = 6
    /\ tx[1].sig.chain_id = 137
    /\ last[1].result = "Ok"

\* C8 as stated: a supplied, parseable gas price is used and the provider is
\* not asked; in every other case the provider is asked and its price used.
C8_Original ==
    \A p \in Procs :
        (DraftOk(p) /\ req[p].value # <<>>) =>
           IF req[p].gas_price.some /\ Parseable(req[p].gas_price)
           THEN /\ ~Called(p, "get_gas_price")
                /\ tx[p].gas_price # None => tx[p].gas_price = DecValue(req[p].gas_price.v)
           ELSE /\ calls[p] # <<>>
                /\ calls[p][1].method = "get_gas_price"
                /\ tx[p].gas_price # None => tx[p].gas_price = calls[p][1].reply

\* C8 as amended: a supplied, parseable gas price is used and the provider is
\* not asked; a supplied gas price that does not parse ends the send with
\* "Invalid gas price format" before any provider call; with no gas price
\* supplied the provider is asked and its price used.
C8_GasPrice ==
    \A p \in Procs :
        DraftOk(p) =>
           IF ~req[p].gas_price.some
           THEN /\ calls[p] # <<>>
                /\ calls[p][1].method = "get_gas_price"
                /\ tx[p].gas_price # None => tx[p].gas_price = calls[p][1].reply
           ELSE IF Parseable(req[p].gas_price)
           THEN /\ ~Called(p, "get_gas_price")
                /\ tx[p].gas_price # None => tx[p].gas_price = DecValue(req[p].gas_price.v)
           ELSE /\ calls[p] = <<>>
                /\ pc[p] = "idle"
                /\ last[p].result = "Invalid gas price format"
                /\ tx[p] = EmptyTx

\* A send whose destination and amount parsed was given the gas price "x" and
\* was refused with "Invalid gas price format".
C8_Witness ==
    /\ DraftOk(1)
    /\ req[1].gas_price = Some(<<"x">>)
    /\ last[1].result = "Invalid gas price format"

C10_TokenAddressInDraft ==
    \A p \in Procs :
        (/\ DraftOk(p)
         /\ req[p].value # <<>>
         /\ req[p].kind = "send_token"
         /\ req[p].token_address \notin AddressStrings
         /\ req[p].gas_price.some => Parseable(req[p].gas_price))
           => /\ calls[p] = <<>>
              /\ last[p].result = "Invalid token address format"

\* C11: send_token with a well-formed recipient, amount and token address, a
\* wallet, a provider, and no failed provider call does not end in an error:
\* once it has ended it returned Ok, its transaction goes to the token
\* contract and carries the transfer call for the recipient and the amount,
\* and it was broadcast.
C11_SendTokenSucceeds ==
    \A p \in Procs :
        (/\ DraftOk(p)
         /\ req[p].kind = "send_token"
         /\ req[p].value # <<>>
         /\ req[p].token_address \in AddressStrings
         /\ req[p].gas_price.some => Parseable(req[p].gas_price)
         /\ req[p].gas_limit.some => Parseable(req[p].gas_limit)
         /\ \A i \in 1..Len(calls[p]) : calls[p][i].reply # Err
         /\ pc[p] = "idle")
           => /\ last[p].result = "Ok"
              /\ tx[p].to = from_str(req[p].token_address).val
              /\ tx[p].data = encode_transfer(from_str(req[p].to).val,
                                              from_dec_str(req[p].value).val)
              /\ Called(p, "send_raw_transaction")

\* C12: the history record built from a transaction whose call data is the
\* transfer selector followed by the encoded recipient and amount names that
\* recipient as `to`, whatever the token contract is, and has that amount, in
\* decimal, as `token_value`; the record is what is written to the file.
C12_DecodeInvertsEncode ==
    \A p \in Procs :
        (req[p].kind = "send_token" /\ pc[p] # "save_history_to_file") =>
           LET h == locals[p].history
               rec == h[Len(h)]
           IN /\ tx[p].data = encode_transfer(from_str(req[p].to).val,
                                              from_dec_str(req[p].value).val)
              /\ tx[p].to = from_str(req[p].token_address).val
              /\ rec.to = FormatAddress[from_str(req[p].to).val]
              /\ rec.token_value.some
              /\ from_dec_str(rec.token_value.v)
                    = [ok |-> TRUE, val |-> from_dec_str(req[p].value).val]
              /\ pc[p] = "idle" => history[locals[p].path].txs = h

\* A transfer of 256 units to 0xb2 through the token contract 0xc3 is on file.
C12_Witness ==
    /\ pc[1] = "idle"
    /\ tx[1].to = 195
    /\ Len(tx[1].data) = 68
    /\ Len(history[<<"alice", "mainnet">>].txs) = 1
    /\ history[<<"alice", "mainnet">>].txs[1].to = "0xb2"
    /\ history[<<"alice", "mainnet">>].txs[1].token_value = Some(<<"2", "5", "6">>)

UniqueChainIds(networks) ==
    \A j, k \in DOMAIN networks : networks[j].chain_id = networks[k].chain_id => j = k

\* C13: add_network with the chain id of a profile of the registry, preset or
\* added, is rejected and leaves the service (registry and current network)
\* and networks.json as they were; and in every state no two profiles share
\* a chain id, neither in the service of the invocation that just ran nor in
\* the one the next invocation builds from the presets and the file.
C13_ChainIdsUnique ==
    /\ [](\A p \in Procs : /\ UniqueChainIds(network_service[p].networks)
                           /\ UniqueChainIds(NetworkService_new(files).networks))
    /\ [][\A n \in NetworkNames, token \in NativeTokens, id \in ChainIdInputs :
             (/\ last'[1].op = "add_network"
              /\ last'[1].name = n
              /\ chain_id_exists(NetworkService_new(files).networks, id)
              /\ add_network(1, n, "u1", token, id))
                => /\ last'[1].result = "Network with chain ID already exists"
                   /\ network_service'[1] = NetworkService_new(files)
                   /\ files' = files]_vars

\* With "a" added at chain id 999 and made current, a second profile at 999
\* was rejected; the file still has "a" alone at that chain id.
C13_Witness ==
    /\ last[1].op = "add_network"
    /\ last[1].name = "b"
    /\ last[1].result = "Network with chain ID already exists"
    /\ files[NETWORKS_STEM].kind = "registry"
    /\ files[NETWORKS_STEM].current_network = "a"
    /\ "a" \in DOMAIN files[NETWORKS_STEM].networks
    /\ files[NETWORKS_STEM].networks["a"].chain_id = 999
    /\ "b" \notin DOMAIN files[NETWORKS_STEM].networks

\* C14: the logged-in account changes only in a login or a logout; create
\* under any name, info and every other command leave it as it is.
C14_SessionOnlyByLoginLogout ==
    [][\A p \in Procs :
          (last'[p] # last[p] /\ load_account_name(files') # load_account_name(files))
             => last'[p].op \in {"login", "logout"}]_vars

\* C15: after logout nobody is logged in, whoever was; when nobody was (the
\* state file is missing, is not JSON, or holds null) logout reports that no
\* user is logged in and writes nothing; otherwise it writes null.
C15_Logout ==
    [][logout(1) =>
          /\ load_account_name(files') = Null
          /\ IF files[STATE_STEM] \in {NoFile, Garbage, SessionJson(Null)}
             THEN /\ last'[1].result = "No user is currently logged in"
                  /\ files' = files
             ELSE /\ last'[1].result = "Logout successful"
                  /\ files' = [files EXCEPT ![STATE_STEM] = SessionJson(Null)]]_vars

\* logout found a state file that is not JSON and left it.
C15_Witness ==
    /\ last[1].op = "logout"
    /\ last[1].result = "No user is currently logged in"
    /\ files[STATE_STEM] = Garbage

\* C16: login and info on a stored record end with an outcome the command
\* reports, never with an abort of the process, whatever the record's
\* ciphertexts, nonces and key hold.
C16_DecryptRecoverable ==
    \A p \in Procs : last[p].op \in {"login", "info"} => last[p].result # "panic"

\* C17: when the history file of the logged-in account and the network is
\* missing or does not parse, loading yields the empty sequence and the
\* history command reports that no history was found; nothing is written.
C17_HistoryLoadTolerant ==
    [][\A net \in Networks :
          (/\ history_command(1, net)
           /\ history[tx_history_file(files, net)].kind \in {"missing", "garbage"})
             => /\ load_history_from_file(files, history, net) = <<>>
                /\ last'[1].result = "No transaction history found"
                /\ history' = history
                /\ files' = files]_vars

\* The history of alice on mainnet was asked for while its file did not parse.
C17_Witness ==
    /\ last[1] = Outcome("history", "alice", "No transaction history found", "mainnet")
    /\ history[<<"alice", "mainnet">>] = GarbageHistory

\* C18: create with a confirmation that differs from the password reports
\* the mismatch and nothing else: no file is written or overwritten (the
\* session file included) and no recovery phrase is shown.  The generators
\* are not reached, so one outcome of each stands for all.
C18_PasswordMismatch ==
    [][\A n \in CreateNames, pw \in Passwords :
          \A conf \in Passwords \ {pw} :
             (/\ last'[1].op = "create"
              /\ last'[1].name = n
              /\ create_account(1, n, pw, conf, "ph1", "k1", "n1", "n1"))
                => /\ last'[1].result = "Passwords do not match"
                   /\ last'[1].shown = Null
                   /\ files' = files]_vars

\* A create for the existing, logged-in account alice was refused for its
\* confirmation; the record and the session are still there.
C18_Witness ==
    /\ last[1] = Outcome("create", "alice", "Passwords do not match", Null)
    /\ files["alice"].kind = "account"
    /\ load_account_name(files) = "alice"

\* C19: whatever encrypt returns for a plaintext under a generated key, the
\* ciphertext and the nonce, decrypt turns back into that plaintext under the
\* same key; so the record a create has just written yields, from its own
\* fields, the recovery phrase that was shown and a password.
C19_RoundTrip ==
    /\ \A data \in Passwords \cup Phrases, key \in Keys, nonce \in AeadNonces :
          LET encrypted == encrypt(data, key, nonce)
          IN decrypt(encrypted[1], key, encrypted[2])
                = [ok |-> TRUE, aborts |-> FALSE, val |-> data]
    /\ \A p \in Procs :
          (last[p].op = "create" /\ last[p].result = "created") =>
             LET record == files[last[p].name]
             IN /\ decrypt(record.encrypted_seed_phrase, record.encryption_key,
                           record.seed_nonce)
                      = [ok |-> TRUE, aborts |-> FALSE, val |-> last[p].shown]
                /\ decrypt(record.encrypted_password, record.encryption_key,
                           record.password_nonce).val \in Passwords

\* An account was created under key k2 with different nonces for the
\* password and the phrase ph2, which its record gives back.
C19_Witness ==
    /\ last[1] = Outcome("create", "alice", "created", "ph2")
    /\ files["alice"].encryption_key = "k2"
    /\ files["alice"].seed_nonce # files["alice"].password_nonce
    /\ decrypt(files["alice"].encrypted_seed_phrase, "k2", files["alice"].seed_nonce).val = "ph2"

\* C21: list prints exactly the accounts that have a record: every name with
\* an account record is printed once, and no other entry of the storage
\* directory (the session file, the network registry file, a history
\* directory) is printed.
C21_ListExactlyAccounts ==
    \A p \in Procs :
        (last[p].op = "list" /\ last[p].result = "Available accounts")
        => \A n \in EntryNames :
              last[p].listed[n] =
                  (IF n \in Names \ {STATE_STEM} /\ files[n].kind = "account"
                   THEN 1 ELSE 0)

\* C24: add_network never replaces or alters a profile: a call that names a
\* key under which a profile is stored is rejected and writes nothing, and
\* after every call, accepted or rejected, each profile the registry had is
\* still there with the same name, url, native token and chain id.
C24_AddNeverReplaces ==
    [][\A n \in NetworkNames :
          (last'[1].op = "add_network" /\ last'[1].name = n)
          => LET before == NetworkService_new(files).networks
                 after == NetworkService_new(files').networks
             IN /\ \A k \in DOMAIN before : k \in DOMAIN after /\ after[k] = before[k]
                /\ n \in DOMAIN before
                      => /\ last'[1].result # "added successfully"
                         /\ files' = files]_vars

\* C22: tx info and the history record builder read a transaction by one
\* rule: for the same transaction both report the recipient and the amount
\* decoded from the call data when the data has 68 bytes or more and starts
\* with the transfer selector, and both report the outer recipient and no
\* token value for every other call data.
C22_SameRule ==
    (/\ last[2].op = "tx_info"
     /\ last[2].result = "Transaction Info"
     /\ pc[1] # "save_history_to_file")
    => LET h == locals[1].history
           rec == h[Len(h)]
           input == tx[2].data
           is_transfer == Len(input) >= 68 /\ SubSeq(input, 1, 4) = TRANSFER_SELECTOR
       IN /\ tx[2] = tx[1]
          /\ last[2].shown = rec.to
          /\ last[2].token_value = rec.token_value
          /\ is_transfer
                => /\ rec.to = FormatAddress[FromBigEndian(SubSeq(input, 17, 36))]
                   /\ rec.token_value = Some(DecDigits(FromBigEndian(SubSeq(input, 37, 68))))
          /\ ~is_transfer
                => /\ rec.to = FormatAddress[tx[2].to]
                   /\ rec.token_value = NoneArg

\* The address of the account whose record is <name>.json.
AddressOfAccount(name) == get_wallet([files EXCEPT ![STATE_STEM] = SessionJson(name)])

\* C23: every record in the history of (account, network) has the address
\* of that account as its `from`, in every interleaving of a send with the
\* login and logout commands of another invocation.
C23_FiledUnderSigner ==
    \A k \in DOMAIN history :
        \A i \in 1..Len(history[k].txs) :
            /\ k[1] \in Names
            /\ history[k].txs[i].from = FormatAddress[AddressOfAccount(k[1])]

\* The strings an account record holds as they are; its two encrypted_*
\* fields hold the hex of a ciphertext instead.
PlainFields(file) ==
    IF file.kind = "account"
    THEN {file.account_name, file.password_nonce, file.seed_nonce, file.encryption_key}
    ELSE IF file.kind = "session" THEN {file.logged_in_account}
    ELSE {}

\* C25: no file holds a recovery phrase or a password in plaintext (an
\* account record holds them only as the hex of an AEAD ciphertext made under
\* the generated key), a phrase is displayed only by the successful create
\* that generated it and stored it encrypted,
\* and login, logout, list and info display neither a phrase nor a password.
C25_SecretsNotPersistedOrShown ==
    /\ \A n \in Stems :
          /\ PlainFields(files[n]) \cap (Phrases \cup Passwords) = {}
          /\ files[n].kind = "account"
                => /\ files[n].encrypted_seed_phrase.hex
                   /\ files[n].encrypted_seed_phrase.key \in Keys
                   /\ files[n].encrypted_password.hex
                   /\ files[n].encrypted_password.key \in Keys
    /\ \A p \in Procs :
          /\ {last[p].name, last[p].result, last[p].private_key} \cap (Phrases \cup Passwords) = {}
          /\ last[p].shown \notin Passwords
          /\ \A n \in EntryNames : last[p].listed[n] > 0 => n \notin Phrases \cup Passwords
          /\ last[p].shown \in Phrases
                => /\ last[p].op = "create"
                   /\ last[p].result = "created"
                   /\ LET rec == files[last[p].name] IN
                      decrypt(rec.encrypted_seed_phrase, rec.encryption_key, rec.seed_nonce)
                         = [ok |-> TRUE, aborts |-> FALSE, val |-> last[p].shown]

\* alice was created with "ph1" and "pw", logged in, and info then showed
\* her address and private key while her record is on file.
C25_Witness ==
    /\ files["alice"].kind = "account"
    /\ files["alice"].encrypted_seed_phrase.pt = "ph1"
    /\ files["alice"].encrypted_password.pt = "pw"
    /\ last[1].op = "info"
    /\ last[1].result = "Account Info"
    /\ last[1].shown = "0xa1"
    /\ last[1].private_key = "sk1"
====
